---------------------------- MODULE Spec2Model ----------------------------
(*************************************************************************)
(* A model of src/src/main.rs: the snake game (Pos, Dir, Snake, Game),   *)
(* the presentation loop of main() and the training loop of train().     *)
(*                                                                       *)
(* Sequences are 1-based here and 0-based in the source: body[1] is the  *)
(* source's body[0] (the head), body[3] is the source's body[2].         *)
(*************************************************************************)
EXTENDS Integers, Sequences, FiniteSets, TLC

(*************************************************************************)
(* Program constants, scaled down so that the state space is finite and  *)
(* small (the source has ROWS = COLS = 20).                              *)
(*************************************************************************)
ROWS ==
    2

COLS ==
    3

POPULATION_SIZE ==
    2

GENERATIONS ==
    2

MAX_STEPS ==
    3

\* The number of game.update() calls of main()'s loop that are explored.
MaxCalls ==
    8

\* The value MAX_STEPS has in the source: the step counts Game::evaluate is
\* compared over.
MAX_STEPS_IN_SOURCE ==
    500

\* The longest body Game::evaluate is compared over.
MaxBodyLen ==
    3

VARIABLES
    game,           \* main(): the Game of the presentation run
    calls,          \* main(): the number of game.update() calls made so far
    pc,             \* train(): the place the control is at
    generation,     \* train(): generation
    population,     \* train(): population
    steps,          \* train(): steps, the round counter of the simulation loop
    scored_games,   \* train(): scored_games, as <<score, index in population>>
    score_sum,      \* train(): score_sum
    champion,       \* train(): champion
    champion_score, \* history: the score of the individual champion was cloned from
    best_ever,      \* history: the largest score of any individual scored so far
    individuals,    \* evaluate(): the games whose fitness is compared
    fitness         \* evaluate(): the values evaluate() returned for them

vars ==
    << game, calls, pc, generation, population, steps, scored_games,
       score_sum, champion, champion_score, best_ever, individuals, fitness >>

mainVars == <<game, calls>>

evalVars == <<individuals, fitness>>

trainVars ==
    << pc, generation, population, steps, scored_games, score_sum, champion,
       champion_score, best_ever >>

\* Option: None and Some(x)
None == <<>>
Some(x) == <<x>>

-----------------------------------------------------------------------------
(* Pos *)

PosNew(x, y) == [x |-> x, y |-> y]

\* Pos::random, with the inclusive upper ends a slip would give.
PosRandomInclusive == {PosNew(x, y) : x \in 0..COLS, y \in 0..ROWS}

\* Pos::random: every value the two random_range calls can return.
PosRandom == {PosNew(x, y) : x \in 0..(COLS - 1), y \in 0..(ROWS - 1)}

(* Dir *)

Horizontal(i) == [axis |-> "Horizontal", val |-> i]
Vertical(i) == [axis |-> "Vertical", val |-> i]

DirUp == Vertical(-1)
DirDown == Vertical(1)
DirLeft == Horizontal(-1)
DirRight == Horizontal(1)

\* impl AddAssign<Dir> for Pos
AddAssign(pos, dir) ==
    IF dir.axis = "Horizontal"
    THEN [pos EXCEPT !.x = @ + dir.val]
    ELSE [pos EXCEPT !.y = @ + dir.val]

-----------------------------------------------------------------------------
(* Snake *)

SnakeNew(x, y) == [body |-> <<PosNew(x, y)>>, direction |-> Horizontal(1)]

SnakeHead(body) == body[1]

\* Snake::can_turn that refuses only the direction already held.
SnakeCanTurnReverse(direction, new_direction) ==
    direction # new_direction

\* Snake::can_turn
SnakeCanTurn(direction, new_direction) ==
    IF direction.axis = "Horizontal" /\ new_direction.axis = "Horizontal"
    THEN FALSE
    ELSE IF direction.axis = "Vertical" /\ new_direction.axis = "Vertical"
    THEN FALSE
    ELSE TRUE

\* Snake::grow that duplicates the head instead of the last segment.
SnakeGrowHead(body) == <<body[1]>> \o body

\* Snake::grow that pushes the last segment twice.
SnakeGrowTwice(body) == Append(Append(body, body[Len(body)]), body[Len(body)])

\* Snake::grow
SnakeGrow(body) == Append(body, body[Len(body)])

\* The loop of Snake::update, for i from the last index down to the second:
\* body[i] = body[i - 1], read from the vector as it is at that moment.
RECURSIVE ShiftBody(_, _)
ShiftBody(body, i) ==
    IF i < 2
    THEN body
    ELSE ShiftBody([body EXCEPT ![i] = body[i - 1]], i - 1)

\* Snake::update with the shift made before the head is advanced.
SnakeUpdateShiftFirst(body, direction) ==
    [ShiftBody(body, Len(body)) EXCEPT ![1] = AddAssign(body[1], direction)]

\* Snake::update
SnakeUpdate(body, direction) ==
    ShiftBody([body EXCEPT ![1] = AddAssign(body[1], direction)], Len(body))

\* Snake::eat: whether the head is on the food
SnakeEats(body, food) == SnakeHead(body) = food

-----------------------------------------------------------------------------
(* Game *)

\* Game::new, the food cell being the value Pos::random returned.
GameNew(brain, food) ==
    [ state |-> "Running",
      food |-> food,
      steps |-> 0,
      body |-> SnakeNew(COLS \div 2, ROWS \div 2).body,
      direction |-> SnakeNew(COLS \div 2, ROWS \div 2).direction,
      brain |-> brain ]

\* The self-collision loop of Game::update that starts at index 1.
SelfCollisionFromOne(body) ==
    \E i \in 2..Len(body) : SnakeHead(body) = body[i]

\* The self-collision loop of Game::update: for i in 2..len (0-based).
SelfCollision(body) ==
    \E i \in 3..Len(body) : SnakeHead(body) = body[i]

\* The match on max_index in Game::update.
DesiredDirection(max_index, direction) ==
    CASE max_index = 0 -> DirUp
      [] max_index = 1 -> DirDown
      [] max_index = 2 -> DirLeft
      [] max_index = 3 -> DirRight
      [] OTHER -> direction

\* The wall test of Game::update that lets the head sit on x = COLS.
OutsideGridLoose(pos) ==
    pos.x < 0 \/ pos.x > COLS \/ pos.y < 0 \/ pos.y >= ROWS

\* The wall test of Game::update without the test of the upper edge.
OutsideGridOpenTop(pos) ==
    pos.x < 0 \/ pos.x >= COLS \/ pos.y >= ROWS

\* The wall test of Game::update.
OutsideGrid(pos) ==
    pos.x < 0 \/ pos.x >= COLS \/ pos.y < 0 \/ pos.y >= ROWS

\* The Over arm of Game::update that still counts the step.
UpdateOverCounting(g) == [g EXCEPT !.steps = @ + 1]

\* The Over arm of Game::update.
UpdateOver(g) == g

\* The step count of the Running arm, not counting.
StepsAfterTickNone(n) == n

\* The step count of the Running arm, counting twice.
StepsAfterTickTwice(n) == n + 2

\* The step count of the Running arm: self.steps += 1.
StepsAfterTick(n) == n + 1

\* The Running arm of Game::update with the decision of the brain applied
\* before the snake is moved.
UpdateRunningTurnFirst(g, max_index, new_food) ==
    LET desired == DesiredDirection(max_index, g.direction)
        direction == IF SnakeCanTurn(g.direction, desired)
                     THEN desired
                     ELSE g.direction
        moved == SnakeUpdate(g.body, direction)
        collided == SelfCollision(moved)
        eaten == SnakeEats(moved, g.food)
        body == IF eaten THEN SnakeGrow(moved) ELSE moved
        food == IF eaten THEN new_food ELSE g.food
        wall == OutsideGrid(SnakeHead(body))
    IN  [ state |-> IF collided \/ wall THEN "Over" ELSE "Running",
          food |-> food,
          steps |-> StepsAfterTick(g.steps),
          body |-> body,
          direction |-> direction,
          brain |-> g.brain ]

\* The Running arm of Game::update. max_index is the index of the largest
\* output of the brain, new_food the value Pos::random returns if it is called.
UpdateRunning(g, max_index, new_food) ==
    LET moved == SnakeUpdate(g.body, g.direction)
        collided == SelfCollision(moved)
        desired == DesiredDirection(max_index, g.direction)
        direction == IF SnakeCanTurn(g.direction, desired)
                     THEN desired
                     ELSE g.direction
        eaten == SnakeEats(moved, g.food)
        body == IF eaten THEN SnakeGrow(moved) ELSE moved
        food == IF eaten THEN new_food ELSE g.food
        wall == OutsideGrid(SnakeHead(body))
    IN  [ state |-> IF collided \/ wall THEN "Over" ELSE "Running",
          food |-> food,
          steps |-> StepsAfterTick(g.steps),
          body |-> body,
          direction |-> direction,
          brain |-> g.brain ]

\* Game::update
GameUpdate(g, max_index, new_food) ==
    IF g.state = "Over"
    THEN UpdateOver(g)
    ELSE UpdateRunning(g, max_index, new_food)

\* The indices the largest of the 4 outputs of the brain can have
\* (Brain::make_move is taken to return the prediction of the network).
MaxIndexes == 0..3

\* game.update(): every state it can leave the game in, over the outputs of
\* the brain and the values of Pos::random.
UpdateOutcomes(g) ==
    {GameUpdate(g, max_index, new_food) :
        max_index \in MaxIndexes, new_food \in PosRandom}

-----------------------------------------------------------------------------
(* Scores.  An f32 score is modelled by the exact rational it approximates, *)
(* a record [num, den]; den = 0 stands for the infinity a division by 0.0   *)
(* gives.  (Scores of distinct value for steps <= 500 lie further apart     *)
(* than the f32 rounding error, so their order is that of the rationals.)   *)

Rat(n, d) == [num |-> n, den |-> d]

RatZero == Rat(0, 1)

RECURSIVE GCD(_, _)
GCD(a, b) == IF b = 0 THEN a ELSE GCD(b, a % b)

RatNorm(r) ==
    LET g == GCD(r.num, r.den)
    IN  IF g = 0 THEN r ELSE Rat(r.num \div g, r.den \div g)

RatAdd(a, b) == RatNorm(Rat(a.num * b.den + b.num * a.den, a.den * b.den))

RatHalf(a) == RatNorm(Rat(a.num, 2 * a.den))

RatLess(a, b) == a.num * b.den < b.num * a.den

RatEq(a, b) == a.num * b.den = b.num * a.den

RatLeq(a, b) == RatLess(a, b) \/ RatEq(a, b)

RatMax(a, b) == IF RatLess(a, b) THEN b ELSE a

\* Game::evaluate with the test len > 1 written as len > 2.
GameEvaluateLate(g) ==
    IF Len(g.body) > 2
    THEN Rat(100 * Len(g.body), g.steps)
    ELSE Rat(g.steps, 100)

\* Game::evaluate without the factor 100 of the arm for a grown body.
GameEvaluateFlat(g) ==
    IF Len(g.body) > 1
    THEN Rat(Len(g.body), g.steps)
    ELSE Rat(g.steps, 100)

\* Game::evaluate with the credit for surviving in whole hundredths.
GameEvaluateTruncated(g) ==
    IF Len(g.body) > 1
    THEN Rat(100 * Len(g.body), g.steps)
    ELSE Rat(g.steps \div 100, 1)

\* Game::evaluate
GameEvaluate(g) ==
    IF Len(g.body) > 1
    THEN Rat(100 * Len(g.body), g.steps)
    ELSE Rat(g.steps, 100)

-----------------------------------------------------------------------------
(* train() *)

\* A fresh brain: Brain::new for the first population, and afterwards the
\* mutated clone made for child number i of the given generation.
BrainOf(gen, i) == gen * POPULATION_SIZE + i

\* scored_games.sort_by(|a, b| b.0.partial_cmp(&a.0)): a stable sort,
\* descending by score.
RECURSIVE InsertScored(_, _)
InsertScored(sorted, e) ==
    IF sorted = <<>>
    THEN <<e>>
    ELSE IF RatLess(Head(sorted).score, e.score)
    THEN <<e>> \o sorted
    ELSE <<Head(sorted)>> \o InsertScored(Tail(sorted), e)

RECURSIVE SortScored(_, _)
SortScored(scored, n) ==
    IF n = 0 THEN <<>> ELSE InsertScored(SortScored(scored, n - 1), scored[n])

\* population.iter().map(|g| (g.evaluate(), g)), then the sort.
ScoredGames(pop) ==
    SortScored([i \in 1..Len(pop) |-> [score |-> GameEvaluate(pop[i]), index |-> i]],
               Len(pop))

\* The scoring loop of train() from entry i on. acc holds score_sum,
\* best_score, champion, the score champion was cloned at, and whether
\* assert!(score >= &0.0) has failed.
RECURSIVE ScoreLoop(_, _, _, _)
ScoreLoop(pop, scored, i, acc) ==
    IF i > Len(scored) \/ acc.failed
    THEN acc
    ELSE LET score == scored[i].score
             better == RatLess(acc.best_score, score)
         IN  IF RatLess(score, RatZero)
             THEN [acc EXCEPT !.failed = TRUE]
             ELSE ScoreLoop(pop, scored, i + 1,
                    [ score_sum |-> RatAdd(acc.score_sum, score),
                      best_score |-> IF better THEN score ELSE acc.best_score,
                      champion |-> IF better
                                   THEN Some(pop[scored[i].index].brain)
                                   ELSE acc.champion,
                      champion_score |-> IF better THEN score ELSE acc.champion_score,
                      failed |-> FALSE ])

\* let mut best_score = 1.0
InitialBestScoreOne == Rat(1, 1)

\* let mut best_score = 0.0
InitialBestScore == RatZero

\* The largest score of a scored generation (0 for an empty one).
RECURSIVE MaxScore(_, _)
MaxScore(scored, n) ==
    IF n = 0 THEN RatZero ELSE RatMax(MaxScore(scored, n - 1), scored[n].score)

\* The state after the first population has been built.
TrainInit ==
    /\ pc = "generation"
    /\ generation = 0
    /\ \E foods \in [1..POPULATION_SIZE -> PosRandom] :
           population = [i \in 1..POPULATION_SIZE |-> GameNew(BrainOf(0, i), foods[i])]
    /\ steps = 0
    /\ scored_games = <<>>
    /\ score_sum = RatZero
    /\ champion = None
    /\ champion_score = RatZero
    /\ best_ever = RatZero
    /\ game = None
    /\ calls = 0
    /\ individuals = <<>>
    /\ fitness = <<>>

\* generation += 1; if generation > GENERATIONS { break; } ... let mut steps = 0;
NextGeneration ==
    /\ pc = "generation"
    /\ generation' = generation + 1
    /\ pc' = IF generation + 1 > GENERATIONS THEN "returned" ELSE "simulate"
    /\ steps' = 0
    /\ UNCHANGED << population, scored_games, score_sum, champion,
                    champion_score, best_ever, mainVars, evalVars >>

\* The for loop, leaving after the first game it has updated.
RECURSIVE RoundOutcomesFirstOnly(_, _)
RoundOutcomesFirstOnly(pop, n) ==
    IF n = 0
    THEN {<<>>}
    ELSE { Append(p, g) :
             p \in RoundOutcomesFirstOnly(pop, n - 1),
             g \in IF /\ pop[n].state = "Running"
                      /\ \A i \in 1..(n - 1) : pop[i].state # "Running"
                   THEN UpdateOutcomes(pop[n])
                   ELSE {pop[n]} }

\* The for loop over population.iter_mut().filter(|g| g.state == Running),
\* for the first n games: every population it can leave behind.
RECURSIVE RoundOutcomes(_, _)
RoundOutcomes(pop, n) ==
    IF n = 0
    THEN {<<>>}
    ELSE { Append(p, g) :
             p \in RoundOutcomes(pop, n - 1),
             g \in IF pop[n].state = "Running"
                   THEN UpdateOutcomes(pop[n])
                   ELSE {pop[n]} }

\* One round of the simulation loop: every game that is Running is updated.
SimulateRound ==
    /\ pc = "simulate"
    /\ steps + 1 <= MAX_STEPS
    /\ \E i \in 1..Len(population) : population[i].state = "Running"
    /\ steps' = steps + 1
    /\ population' \in RoundOutcomes(population, Len(population))
    /\ UNCHANGED << pc, generation, scored_games, score_sum, champion,
                    champion_score, best_ever, mainVars, evalVars >>

\* The simulation loop ends: steps > MAX_STEPS, or no game was Running.
SimulateEnd ==
    /\ pc = "simulate"
    /\ ~( /\ steps + 1 <= MAX_STEPS
          /\ \E i \in 1..Len(population) : population[i].state = "Running" )
    /\ steps' = steps + 1
    /\ pc' = "evaluate"
    /\ UNCHANGED << generation, population, scored_games, score_sum, champion,
                    champion_score, best_ever, mainVars, evalVars >>

\* The scoring of the generation: scored_games, score_sum, best_score, champion.
Evaluate ==
    /\ pc = "evaluate"
    /\ LET scored == ScoredGames(population)
           acc == ScoreLoop(population, scored, 1,
                    [ score_sum |-> RatZero,
                      best_score |-> InitialBestScore,
                      champion |-> champion,
                      champion_score |-> champion_score,
                      failed |-> FALSE ])
       IN  /\ scored_games' = scored
           /\ score_sum' = acc.score_sum
           /\ champion' = acc.champion
           /\ champion_score' = acc.champion_score
           /\ best_ever' = RatMax(best_ever, MaxScore(scored, Len(scored)))
           /\ pc' = IF acc.failed THEN "panicked" ELSE "reproduce"
    /\ UNCHANGED <<generation, population, steps, mainVars, evalVars>>

\* cumulative_score after the first k entries of scored_games.
RECURSIVE Cumulative(_, _)
Cumulative(scored, k) ==
    IF k = 0 THEN RatZero ELSE RatAdd(Cumulative(scored, k - 1), scored[k].score)

\* rng.random_range(0.0..score_sum): of every interval the cumulative scores
\* cut [0, score_sum) into, its lower end and its middle.
Draws(scored) ==
    LET n == Len(scored)
        total == Cumulative(scored, n)
    IN  { Cumulative(scored, k) :
            k \in {j \in 0..(n - 1) : RatLess(Cumulative(scored, j), total)} }
        \cup
        { RatHalf(RatAdd(Cumulative(scored, k), Cumulative(scored, k + 1))) :
            k \in {j \in 0..(n - 1) :
                     RatLess(Cumulative(scored, j), Cumulative(scored, j + 1))} }

\* The walk, testing cumulative_score before the score of entry i is added.
RECURSIVE WalkTestFirst(_, _, _, _)
WalkTestFirst(scored, i, cumulative_score, r) ==
    IF i > Len(scored)
    THEN None
    ELSE IF RatLeq(r, cumulative_score)
         THEN Some(scored[i].index)
         ELSE WalkTestFirst(scored, i + 1,
                            RatAdd(cumulative_score, scored[i].score), r)

\* The walk over scored_games for the draw r, from entry i on.
RECURSIVE Walk(_, _, _, _)
Walk(scored, i, cumulative_score, r) ==
    IF i > Len(scored)
    THEN None
    ELSE LET c == RatAdd(cumulative_score, scored[i].score)
         IN  IF RatLeq(r, c)
             THEN Some(scored[i].index)
             ELSE Walk(scored, i + 1, c, r)

\* Every value selected_parent can have before it is unwrapped.
SelectedParents(scored, sum) ==
    IF RatLess(RatZero, sum)
    THEN {Walk(scored, 1, RatZero, r) : r \in Draws(scored)}
    ELSE {Some(scored[i].index) : i \in 1..Len(scored)}

\* How the while loop that fills new_population can end: in a panic (the
\* panic!() arm, or the unwrap of a None) or with the population replaced.
ReproduceOutcomes(scored, sum) ==
    (IF RatLess(sum, RatZero) \/ None \in SelectedParents(scored, sum)
     THEN {"panicked"} ELSE {})
    \cup
    (IF ~RatLess(sum, RatZero) /\ SelectedParents(scored, sum) \ {None} # {}
     THEN {"generation"} ELSE {})

\* The new generation: each child is Game::new(child_brain), child_brain the
\* mutated clone of the brain of a selected parent.
Reproduce ==
    /\ pc = "reproduce"
    /\ \E outcome \in ReproduceOutcomes(scored_games, score_sum),
          foods \in [1..POPULATION_SIZE -> PosRandom] :
           /\ pc' = outcome
           /\ population' =
                 IF outcome = "panicked"
                 THEN population
                 ELSE [ i \in 1..POPULATION_SIZE |->
                          GameNew(BrainOf(generation, i), foods[i]) ]
           \* steps, scored_games and score_sum are locals of the loop body
           /\ steps' = IF outcome = "panicked" THEN steps ELSE 0
           /\ scored_games' = IF outcome = "panicked" THEN scored_games ELSE <<>>
           /\ score_sum' = IF outcome = "panicked" THEN score_sum ELSE RatZero
    /\ UNCHANGED <<generation, champion, champion_score, best_ever, mainVars,
                   evalVars>>

\* main(): train().expect(...), which aborts on None, and then
\* let mut game = Game::new(brain).
MainExpect ==
    /\ pc = "returned"
    /\ pc' = IF champion = None THEN "aborted" ELSE "presenting"
    /\ \E food \in PosRandom :
           game' = IF champion = None THEN game ELSE GameNew(champion[1], food)
    /\ UNCHANGED << generation, population, steps, scored_games, score_sum,
                    champion, champion_score, best_ever, calls, evalVars >>

TrainNext ==
    \/ NextGeneration
    \/ SimulateRound
    \/ SimulateEnd
    \/ Evaluate
    \/ Reproduce
    \/ MainExpect

TrainSpec == TrainInit /\ [][TrainNext]_vars

-----------------------------------------------------------------------------
(* main(): the presentation run *)

\* The brain train() returned.
ChampionBrain == "champion"

\* The state train() leaves behind when it has returned a champion.
TrainReturned ==
    /\ pc = "returned"
    /\ generation = GENERATIONS + 1
    /\ population = <<>>
    /\ steps = 0
    /\ scored_games = <<>>
    /\ score_sum = RatZero
    /\ champion = Some(ChampionBrain)
    /\ champion_score = RatZero
    /\ best_ever = RatZero

\* main() after train() has returned: let mut game = Game::new(brain).
Init ==
    /\ TrainReturned
    /\ \E food \in PosRandom : game = GameNew(ChampionBrain, food)
    /\ calls = 0
    /\ individuals = <<>>
    /\ fitness = <<>>

\* One game.update() of the loop of main().
MainUpdate ==
    /\ calls < MaxCalls
    /\ game' \in UpdateOutcomes(game)
    /\ calls' = calls + 1
    /\ UNCHANGED <<trainVars, evalVars>>

Next == MainUpdate

Spec == Init /\ [][Next]_vars

-----------------------------------------------------------------------------
(* Game::evaluate on two individuals of one generation *)

\* A game of the given body length that has made n steps.
Individual(len, n) ==
    [ GameNew(0, PosNew(0, 0)) EXCEPT
        !.steps = n,
        !.body = [i \in 1..len |-> SnakeHead(@)] ]

\* An individual that has grown; a body of len segments takes len - 1 steps.
EvalInit ==
    /\ TrainReturned
    /\ game = None
    /\ calls = 0
    /\ \E len \in 2..MaxBodyLen, n \in 1..MAX_STEPS_IN_SOURCE :
           /\ len <= n + 1
           /\ individuals = << Individual(len, n) >>
    /\ fitness = <<>>

\* An individual that never ate joins, and evaluate() is called on both.
EvaluatePair ==
    /\ Len(individuals) = 1
    /\ \E n \in 1..MAX_STEPS_IN_SOURCE :
           individuals' = Append(individuals, Individual(1, n))
    /\ fitness' = [i \in 1..2 |-> GameEvaluate(individuals'[i])]
    /\ UNCHANGED <<trainVars, mainVars>>

EvalNext == EvaluatePair

EvalSpec == EvalInit /\ [][EvalNext]_vars

-----------------------------------------------------------------------------
(* Properties of Game::update, checked under Spec (the presentation run) *)

\* A step of main()'s loop that calls game.update().
UpdateCalled == calls' = calls + 1

\* The same, on a game that is Running at the time of the call.
RunningTick == UpdateCalled /\ game.state = "Running"

InsideGrid(pos) == pos.x \in 0..(COLS - 1) /\ pos.y \in 0..(ROWS - 1)

\* C2: the initial status is Running, and an update of a game that is Over
\* changes nothing of it: status, body, heading, food cell, step counter.
C2_OverIsTerminal ==
    /\ [](calls = 0 => game.state = "Running")
    /\ [][game.state = "Over" => game' = game]_vars

\* Two updates have been made on a game that was Over.
C2_Witness ==
    game.state = "Over" /\ calls = game.steps + 2

\* C3 as stated: every update adds one to the step counter, whatever the status.
C3_StepsCountEveryUpdate ==
    [][UpdateCalled => game'.steps = game.steps + 1]_vars

\* C3 amended: an update adds exactly one to the step counter when the game
\* is Running, and leaves it unchanged when the game is Over.
C3_StepsCountRunningUpdates ==
    [][UpdateCalled =>
         game'.steps = game.steps + (IF game.state = "Running" THEN 1 ELSE 0)]_vars

\* Updates of both kinds have been made: some counted, one not.
C3_Witness ==
    game.state = "Over" /\ game.steps >= 2 /\ calls = game.steps + 1

\* C4: an update of a Running game ends Over exactly when the moved head is
\* on a segment of index >= 2 (0-based) of the shifted body, or off the grid.
C4_OverIffCollisionOrWall ==
    [][RunningTick =>
         ( game'.state = "Over"
           <=> \/ \E i \in 3..Len(game.body) : game'.body[1] = game'.body[i]
               \/ ~InsideGrid(game'.body[1]) )]_vars

\* A game that ended by self-collision: it is Over with its head on the grid.
C4_Witness ==
    game.state = "Over" /\ InsideGrid(game.body[1])

\* C5: a game whose body has 1 or 2 segments becomes Over only by leaving
\* the grid.
C5_ShortBodyNeverSelfCollides ==
    [][(RunningTick /\ Len(game.body) <= 2 /\ game'.state = "Over")
         => ~InsideGrid(game'.body[1])]_vars

\* A body <<p, p>> was updated heading right and ended Over past the right wall
\* (a head off the grid eats nothing, so the body had 2 segments before too).
C5_Witness ==
    /\ game.state = "Over"
    /\ Len(game.body) = 2
    /\ game.body[1] = game.body[2]
    /\ game.body[1].x = COLS

\* C6 as stated: after an update of a Running game every position i >= 1 holds
\* what position i - 1 held before, and the head is the old head advanced.
C6_ShiftTakesPriorValues ==
    [][RunningTick =>
         /\ game'.body[1] = AddAssign(game.body[1], game.direction)
         /\ \A i \in 2..Len(game.body) : game'.body[i] = game.body[i - 1]]_vars

\* C7: the heading is always one of up, down, left, right; an update keeps it
\* or turns it to the other axis; a decision for the heading held or for its
\* reverse leaves it unchanged.
C7_HeadingTurnsOnlyAcrossAxes ==
    /\ [](game.direction \in {DirUp, DirDown, DirLeft, DirRight})
    /\ [][\/ game'.direction = game.direction
          \/ game'.direction.axis # game.direction.axis]_vars
    /\ [][\A max_index \in MaxIndexes :
            ( /\ RunningTick
              /\ DesiredDirection(max_index, game.direction).axis
                   = game.direction.axis
              /\ game' = GameUpdate(game, max_index, game'.food) )
            => game'.direction = game.direction]_vars

\* The heading has been turned twice: to vertical and back to horizontal.
C7_Witness ==
    game.direction = DirLeft /\ game.steps >= 2

\* C8: when the moved head is on the food the body gets exactly one more
\* segment, a duplicate of the tail, and the others stay where the shift put
\* them; otherwise the length does not change.
C8_EatGrowsByTailDuplicate ==
    [][RunningTick =>
         LET n == Len(game.body)
             moved == SnakeUpdate(game.body, game.direction)
         IN  IF moved[1] = game.food
             THEN /\ Len(game'.body) = n + 1
                  /\ game'.body[n + 1] = game'.body[n]
                  /\ SubSeq(game'.body, 1, n) = moved
             ELSE Len(game'.body) = n]_vars

\* A body of at least 4 segments that has just grown: its last two segments
\* are one cell, which the segment before them has already left.
C8_Witness ==
    LET n == Len(game.body)
    IN  /\ n >= 4
        /\ game.body[n] = game.body[n - 1]
        /\ game.body[n - 1] # game.body[n - 2]

\* C9: the food cell is always on the grid, and it changes only in an update
\* whose moved head is on it.
C9_FoodOnGridAndMovedOnlyWhenEaten ==
    /\ [](InsideGrid(game.food))
    /\ [][game'.food # game.food => game'.body[1] = game.food]_vars

\* The food was resampled onto a cell of the body (the head itself).
C9_Witness ==
    game.steps >= 1 /\ game.state = "Running" /\ game.food = game.body[1]

\* C10: evaluate is 0.01 x steps for a body of 1 segment and 100 x L / steps
\* for a body of L > 1 segments.
C10_EvaluateFormula ==
    LET e == GameEvaluate(game)
        L == Len(game.body)
    IN  /\ e.den # 0
        /\ IF L = 1
           THEN 100 * e.num = game.steps * e.den
           ELSE game.steps * e.num = 100 * L * e.den

\* The arm for a grown body, on a game several steps old (the other arm is
\* taken on every game that has not eaten).
C10_Witness ==
    Len(game.body) = 3 /\ game.steps = 5

\* C16: an update moves the head along the heading held before the update;
\* the decision taken in the update changes neither the body nor the status
\* the update ends in (whatever the decision, they are the same), so it first
\* shows in the move of the next update.
C16_MoveUsesCarriedHeading ==
    [][RunningTick =>
         /\ game'.body[1] = AddAssign(game.body[1], game.direction)
         /\ \A max_index \in MaxIndexes :
              LET other == GameUpdate(game, max_index, game'.food)
              IN  other.body = game'.body /\ other.state = game'.state]_vars

\* The last update turned the heading: the head did not come from the
\* previous head position (index 2, 0-based) along the heading now held.
C16_Witness ==
    /\ game.state = "Running"
    /\ Len(game.body) >= 3
    /\ game.body[3] # game.body[1]
    /\ AddAssign(game.body[3], game.direction) # game.body[1]

\* C17: the body has at least 1 and at most steps + 1 segments, an update
\* adds at most one segment and removes none; so steps >= 1 when it has more
\* than 1 segment.
C17_LengthBoundedBySteps ==
    /\ [](Len(game.body) >= 1 /\ Len(game.body) <= game.steps + 1)
    /\ [](Len(game.body) > 1 => game.steps >= 1)
    /\ [][/\ Len(game'.body) >= Len(game.body)
          /\ Len(game'.body) <= Len(game.body) + 1]_vars

\* A game that has grown in each of its first 3 updates.
C17_Witness ==
    game.steps = 3 /\ Len(game.body) = 4

\* C18: while the game is Running every cell of the body is on the grid; when
\* it is Over every cell of the body other than the cell of the head is on the
\* grid, and the head is at most one cell off the grid.
C18_BodyOnGrid ==
    /\ game.state = "Running" =>
         \A i \in 1..Len(game.body) : InsideGrid(game.body[i])
    /\ game.state = "Over" =>
         /\ \A i \in 2..Len(game.body) :
              game.body[i] = game.body[1] \/ InsideGrid(game.body[i])
         /\ game.body[1].x \in -1..COLS
         /\ game.body[1].y \in -1..ROWS
         /\ game.body[1].x \in 0..(COLS - 1) \/ game.body[1].y \in 0..(ROWS - 1)

\* A game of at least 3 segments that ended one cell above the grid.
C18_Witness ==
    game.state = "Over" /\ Len(game.body) >= 3 /\ game.body[1].y = -1

\* C19 as stated: with 2 or more segments, the segment of index 1 (0-based) is
\* on the cell of the head, so L segments cover at most L - 1 cells, and the
\* segment of index 2, when there is one after an update, is on the cell the
\* head was on before the update.
C19_SecondSegmentOnHead ==
    /\ [](Len(game.body) >= 2 =>
            /\ game.body[2] = game.body[1]
            /\ Cardinality({game.body[i] : i \in 1..Len(game.body)})
                 <= Len(game.body) - 1)
    /\ [][(RunningTick /\ Len(game'.body) >= 3)
            => game'.body[3] = game.body[1]]_vars

\* C19 amended: the same, the segment of index 2 being on the cell the head
\* was on before the update when the body had a segment of index 2 before the
\* update too (a segment of index 2 that the growth of this update appended
\* is on the cell of the head).
C19_SecondSegmentOnHeadThirdFollows ==
    /\ [](Len(game.body) >= 2 =>
            /\ game.body[2] = game.body[1]
            /\ Cardinality({game.body[i] : i \in 1..Len(game.body)})
                 <= Len(game.body) - 1)
    /\ [][RunningTick =>
            /\ Len(game.body) >= 3 => game'.body[3] = game.body[1]
            /\ (Len(game.body) = 2 /\ Len(game'.body) = 3)
                 => game'.body[3] = game'.body[1]]_vars

\* A body whose segment of index 2 follows the head one cell behind.
C19_Witness ==
    /\ Len(game.body) >= 4
    /\ game.body[2] = game.body[1]
    /\ game.body[3] # game.body[1]

-----------------------------------------------------------------------------
(* Properties of Game::evaluate, checked under EvalSpec *)

\* C12 as stated: of two individuals with step counts from 1 to MAX_STEPS, the
\* one with more than 1 segment has the strictly higher fitness.
C12_AnyGrowthDominates ==
    Len(fitness) = 2 => RatLess(fitness[2], fitness[1])

\* C12 amended: an individual with L > 1 segments and s steps has a strictly
\* higher fitness than one with 1 segment and t steps when s x t < 10000 x L
\* (so whenever both s and t are at most 141), and a strictly lower one when
\* s x t > 10000 x L.
C12_GrowthDominatesShortRuns ==
    Len(fitness) = 2 =>
        LET L == Len(individuals[1].body)
            s == individuals[1].steps
            t == individuals[2].steps
        IN  /\ s * t < 10000 * L => RatLess(fitness[2], fitness[1])
            /\ (s <= 141 /\ t <= 141) => RatLess(fitness[2], fitness[1])
            /\ s * t > 10000 * L => RatLess(fitness[1], fitness[2])

\* Two individuals of 141 steps each, the grown one ahead.
C12_Witness ==
    /\ Len(fitness) = 2
    /\ individuals[1].steps = 141
    /\ individuals[2].steps = 141
    /\ RatLess(fitness[2], fitness[1])

-----------------------------------------------------------------------------
(* Properties of train(), checked under TrainSpec *)

\* C1 as stated: the champion is the brain of an individual whose score is
\* the largest of all individuals of all generations scored so far.
C1_ChampionIsBestEver ==
    IF champion = None
    THEN RatEq(best_ever, RatZero)
    ELSE RatEq(champion_score, best_ever)

\* The scores of a generation are in scored_games and score_sum.
Scored == pc \in {"reproduce", "panicked"}

\* C11: the fitness of every game is a number (not a division by 0 steps)
\* and is >= 0, so the assertion of the scoring loop does not fail, no total
\* score is negative, and train() does not panic.
C11_FitnessNeverNegative ==
    /\ \A i \in 1..Len(population) :
         LET e == GameEvaluate(population[i])
         IN  e.den > 0 /\ e.num >= 0
    /\ \A i \in 1..Len(scored_games) : ~RatLess(scored_games[i].score, RatZero)
    /\ score_sum.den > 0
    /\ ~RatLess(score_sum, RatZero)
    /\ pc # "panicked"

\* A generation has been scored in which an individual had grown and ended
\* after 2 updates: its fitness is a division by its 2 steps.
C11_Witness ==
    /\ pc = "reproduce"
    /\ \E i \in 1..Len(population) :
         population[i].steps = 2 /\ Len(population[i].body) = 2

\* A step of the simulation loop that runs one round.
RoundRun == pc = "simulate" /\ pc' = "simulate" /\ steps' = steps + 1

\* C13: while a generation is simulated, after k rounds every Running game
\* has made k steps and no game more than k, and k <= MAX_STEPS; a round
\* updates every Running game once and no other game, and is run only while
\* k < MAX_STEPS and a game is Running; the simulation ends only when no game
\* is Running or k = MAX_STEPS, so every game that is scored is Over or has
\* made MAX_STEPS steps.
C13_SynchronizedRounds ==
    /\ [](pc = "simulate" =>
            /\ steps <= MAX_STEPS
            /\ \A i \in 1..Len(population) :
                 /\ population[i].steps <= steps
                 /\ population[i].state = "Running" => population[i].steps = steps)
    /\ [](pc \in {"evaluate", "reproduce"} =>
            \A i \in 1..Len(population) :
               \/ population[i].state = "Over"
               \/ population[i].steps = MAX_STEPS)
    /\ [][RoundRun =>
            /\ steps < MAX_STEPS
            /\ \E i \in 1..Len(population) : population[i].state = "Running"
            /\ Len(population') = Len(population)
            /\ \A i \in 1..Len(population) :
                 IF population[i].state = "Running"
                 THEN population'[i].steps = population[i].steps + 1
                 ELSE population'[i] = population[i]]_vars
    /\ [][(pc = "simulate" /\ pc' = "evaluate") =>
            /\ population' = population
            /\ \/ steps = MAX_STEPS
               \/ \A i \in 1..Len(population) : population[i].state = "Over"]_vars

\* The simulation has ended after MAX_STEPS rounds with one game still
\* Running and another Over since an earlier round.
C13_Witness ==
    /\ pc = "evaluate"
    /\ \E i, j \in 1..Len(population) :
         /\ population[i].state = "Running" /\ population[i].steps = MAX_STEPS
         /\ population[j].state = "Over" /\ population[j].steps < MAX_STEPS

\* C14: every generation has POPULATION_SIZE games; when a generation has
\* been scored, every draw of the roulette wheel finds a parent (the walk
\* does not end with None), a total of 0 would give a parent for every index,
\* and the reproduction ends with the next population, not in a panic.
C14_ReproductionKeepsSize ==
    /\ Len(population) = POPULATION_SIZE
    /\ pc = "reproduce" =>
         /\ Len(scored_games) = POPULATION_SIZE
         /\ RatEq(score_sum, Cumulative(scored_games, Len(scored_games)))
         /\ \A r \in Draws(scored_games) :
              /\ RatLess(r, score_sum)
              /\ Walk(scored_games, 1, RatZero, r) # None
         /\ SelectedParents(scored_games, score_sum)
              \subseteq {Some(i) : i \in 1..POPULATION_SIZE}
         /\ SelectedParents(scored_games, RatZero)
              = {Some(i) : i \in 1..POPULATION_SIZE}
         /\ ReproduceOutcomes(scored_games, score_sum) = {"generation"}
    /\ pc # "panicked"

\* The second generation has been made, from a first one in which the two
\* individuals had different scores and each of them can be drawn.
C14_Witness ==
    /\ generation = 1
    /\ pc = "reproduce"
    /\ RatLess(scored_games[2].score, scored_games[1].score)
    /\ SelectedParents(scored_games, score_sum) = {Some(1), Some(2)}

\* C15: champion is None exactly as long as every individual scored so far
\* scored 0, so train() returns None if and only if all of them did.
C15_NoneIffAllScoresZero ==
    /\ (champion = None) <=> RatEq(best_ever, RatZero)
    /\ Scored =>
         ((champion = None) <=>
            /\ RatEq(best_ever, RatZero)
            /\ \A i \in 1..Len(scored_games) :
                 RatEq(scored_games[i].score, RatZero))

\* train() has returned a champion, individuals having scored more than 0.
C15_Witness ==
    /\ pc = "returned"
    /\ champion # None
    /\ RatLess(RatZero, best_ever)

\* C20: every individual that is scored has made at least 1 step and scores
\* more than 0, so champion is set from the scoring of the first generation
\* on, train() returns Some, and main() does not abort.
C20_ChampionAlwaysFound ==
    /\ pc \in {"evaluate", "reproduce"} =>
         \A i \in 1..Len(population) :
            /\ population[i].steps >= 1
            /\ RatLess(RatZero, GameEvaluate(population[i]))
    /\ pc = "reproduce" =>
         \A i \in 1..Len(scored_games) : RatLess(RatZero, scored_games[i].score)
    /\ champion = None =>
         \/ generation = 0
         \/ generation = 1 /\ pc \in {"simulate", "evaluate"}
    /\ pc = "returned" => champion # None
    /\ pc # "aborted"

\* main() has built the game of the presentation run from the champion.
C20_Witness ==
    /\ pc = "presenting"
    /\ Some(game.brain) = champion

=============================================================================
